---- MODULE Spec2Model ----
(***************************************************************************)
(* Model of the dbt workspace provisioning tasks of ddpui                   *)
(* (ddpui/celeryworkers/tasks.py): clone_github_repo and                    *)
(* setup_dbtworkspace, the progress log they write, the commands they run   *)
(* and the database rows, directories and secrets they touch.               *)
(*                                                                          *)
(* Python strings that the code builds (URLs, commands, messages, paths)    *)
(* are sequences of string atoms; concatenation and f-string formatting     *)
(* are \o, str.replace is StrReplace.                                       *)
(***************************************************************************)
EXTENDS Integers, Sequences, FiniteSets, TLC

(* ------------------------------ bounds -------------------------------- *)

\* worker processes of the pool; a worker runs one task at a time
MaxWorkers == 2
\* tasks dispatched in one behaviour
MaxRuns == 2

Workers == 1..MaxWorkers

(* ----------------------------- constants ------------------------------ *)

\* Python's None, for the string-valued fields
NoneVal == "None"

\* the exit code the pip steps tolerate
BENIGN_RETURNCODE == 120

\* exit codes a spawned process is observed to end with
ExitCodes == {0, 1, BENIGN_RETURNCODE}

\* str(int) on the exit codes of the model
IntStr(n) ==
    CASE n = 0 -> "0"
      [] n = 1 -> "1"
      [] n = 120 -> "120"
      [] OTHER -> "?"

\* os.getenv("CLIENTDBT_ROOT")
CLIENTDBT_ROOT == <<"/clientdbt">>

\* the one Org row of the model and an id that matches no row
OrgIds == {"org1", "org9"}
OrgName == "Acme"

\* django.utils.text.slugify on the names of the model
Slugify(name) ==
    CASE name = "Acme" -> "acme"
      [] name = "Acme Corp" -> "acme-corp"
      [] OTHER -> name

Slugs == {"acme", "test-org"}

\* Path(root) / slug
ProjectDir(slug) == CLIENTDBT_ROOT \o <<"/", slug>>
ProjectDirs == {ProjectDir(s) : s \in Slugs}
DbtRepoDir(project_dir) == project_dir \o <<"/", "dbtrepo">>
VenvDir(project_dir) == project_dir \o <<"/", "venv">>
Paths == ProjectDirs \cup {DbtRepoDir(p) : p \in ProjectDirs}
                     \cup {VenvDir(p) : p \in ProjectDirs}

WarehouseTypes == {"postgres", "bigquery", "snowflake"}

\* request inputs: the URL of a github repository and a token or none; the
\* URLs are a repository and one whose name holds the host name
\* (github.com/<user>/<user>.github.com); without a token the URL is not
\* looked at, and one URL stands for all
AccessTokens == {NoneVal, "TOK"}
RepoUrls ==
    { <<"https://", "github.com", "/acme/dbt">>,
      <<"https://", "github.com", "/acme/acme.", "github.com">> }
Requests ==
    { r \in [gitrepoUrl : RepoUrls, gitrepoAccessToken : AccessTokens] :
        r.gitrepoAccessToken = NoneVal
           => r.gitrepoUrl = <<"https://", "github.com", "/acme/dbt">> }
DbtVersions == {"1.5.0"}
Schemas == {"analytics"}
Payloads ==
    { [ gitrepoUrl |-> r.gitrepoUrl,
        gitrepoAccessToken |-> r.gitrepoAccessToken,
        dbtVersion |-> v,
        profile |-> [target_configs_schema |-> sch] ] :
      r \in Requests, v \in DbtVersions, sch \in Schemas }

(* ------------------------------- state -------------------------------- *)

\* Each worker holds the task it runs or has last run: t below names the
\* worker and, through it, that task.
VARIABLES
    pc,             \* worker -> position in its task's code
    frame,          \* worker -> its task's arguments and local variables
    taskprogress,   \* worker -> the progress log keyed by its task's id
    runcmd_calls,   \* worker -> the commands its task has run, with exit
    fs_calls,       \* worker -> the directory operations its task has done
    secret_calls,   \* worker -> the secret-store calls its task has made
    finished,       \* how the tasks of workers that took a new one ended
    fs,             \* path -> what is there
    clonedBy,       \* project dir -> run whose clone made its dbtrepo (0: none)
    Org,            \* the Org row: slug, dbt
    OrgWarehouse,   \* wtype of the Org's warehouse row, NoneVal if no row
    OrgDbt,         \* the OrgDbt rows, in order of creation
    secrets         \* the github token the secret store holds for the Org

\* The client API (ddpui/clientapi.py): its tables and the requests it serves
VARIABLES
    ClientUser,     \* the ClientUser rows, in order of creation: the id is the index
    ClientOrg,      \* the ClientOrg rows, in order of creation
    Invitation,     \* the Invitation rows, in order of creation
    response,       \* the response to the request served last
    nreq,           \* number of requests received
    airbyte_calls,  \* the ClientOrg ids airbyteapi.createworkspace was called for
    inflight        \* client -> the request it has in flight, served step by step

apivars == << ClientUser, ClientOrg, Invitation, response, nreq, airbyte_calls, inflight >>

vars == << pc, frame, taskprogress, runcmd_calls, fs_calls, secret_calls,
           finished, fs, clonedBy, Org, OrgWarehouse, OrgDbt, secrets,
           ClientUser, ClientOrg, Invitation, response, nreq, airbyte_calls, inflight >>

(* ------------------------- strings and entries ------------------------ *)

\* str.replace(old, new): every non-overlapping occurrence, left to right
RECURSIVE StrReplace(_, _, _)
StrReplace(s, old, new) ==
    IF Len(s) < Len(old) THEN s
    ELSE IF SubSeq(s, 1, Len(old)) = old
         THEN new \o StrReplace(SubSeq(s, Len(old) + 1, Len(s)), old, new)
         ELSE <<Head(s)>> \o StrReplace(Tail(s), old, new)

\* the URL handed to git clone
RewriteUrl(gitrepo_url, gitrepo_access_token) ==
    IF gitrepo_access_token # NoneVal
    THEN StrReplace(gitrepo_url, <<"github.com">>,
                    <<"oauth2:", gitrepo_access_token, "@", "github.com">>)
    ELSE gitrepo_url

\* the outcomes of runcmd(cmd, cwd): it returns, or raises CalledProcessError
\* carrying the nonzero exit code, or raises another exception
RunOutcomes ==
    { [exc |-> "none", returncode |-> 0] }
    \cup { [exc |-> "CalledProcessError", returncode |-> c] : c \in ExitCodes \ {0} }
    \cup { [exc |-> "OSError", returncode |-> 0] }

\* str(error) of what runcmd raised
ErrorStr(outcome, cmd) ==
    IF outcome.exc = "CalledProcessError"
    THEN <<"Command '">> \o cmd
         \o <<"' returned non-zero exit status ", IntStr(outcome.returncode), ".">>
    ELSE <<"[Errno 2] No such file or directory">>

\* progress entries: {message, status} and {message, error, status}
Entry(message, status) == [message |-> message, status |-> status]
ErrorEntry(message, error, status) ==
    [message |-> message, error |-> error, status |-> status]

\* TaskProgress.add
TaskProgressAdd(log, entry) == Append(log, entry)

\* CloneDoneStatus with the two arms exchanged
CloneDoneStatusSwapped(child) == IF child THEN "completed" ELSE "running"

\* status of clone_github_repo's last entry on success
CloneDoneStatus(child) == IF child THEN "running" ELSE "completed"

\* Tolerated with every CalledProcessError swallowed
ToleratedAnyCode(outcome) == outcome.exc = "CalledProcessError"

\* Tolerated with the comparison inverted
ToleratedInverted(outcome) ==
    outcome.exc = "CalledProcessError" /\ outcome.returncode # BENIGN_RETURNCODE

\* the `except CalledProcessError` arm of the pip steps: the run goes on
Tolerated(outcome) ==
    outcome.exc = "CalledProcessError" /\ ~(outcome.returncode # BENIGN_RETURNCODE)

\* PipStepPasses with every outcome passing
PipStepPassesAlways(outcome) == TRUE

\* a pip step goes on to its success entry
PipStepPasses(outcome) == outcome.exc = "none" \/ Tolerated(outcome)

\* DirBranch without the removal of an old checkout
DirBranchNoRmtree(projectDirExists, dbtrepoExists) ==
    IF ~projectDirExists THEN "clone_mkdir" ELSE "clone_run"

\* lines 42, 52: what clone_github_repo does about the directories
DirBranch(projectDirExists, dbtrepoExists) ==
    IF ~projectDirExists THEN "clone_mkdir"
    ELSE IF dbtrepoExists THEN "clone_rmtree"
    ELSE "clone_run"

\* AfterClone with the test of the return value inverted
AfterCloneInverted(kind, cloned) ==
    IF kind = "setup" THEN (IF cloned THEN "done" ELSE "venv") ELSE "done"

\* AfterClone with the return value of clone_github_repo ignored
AfterCloneUnchecked(kind, cloned) ==
    IF kind = "setup" THEN "venv" ELSE "done"

\* where a task goes when clone_github_repo has returned cloned (lines 113-119)
AfterClone(kind, cloned) ==
    IF kind = "setup" THEN (IF ~cloned THEN "done" ELSE "venv") ELSE "done"

\* CommandPasses with the tolerance of the pip steps
CommandPassesTolerant(outcome) ==
    \/ outcome.exc = "none"
    \/ outcome.exc = "CalledProcessError" /\ outcome.returncode = BENIGN_RETURNCODE

\* the try/except around git clone and venv creation: the run goes on only
\* if runcmd raised nothing
CommandPasses(outcome) == outcome.exc = "none"

\* SlugUnset with the test left out
SlugUnsetAlways(slug) == TRUE

\* line 105: the Org has no slug yet
SlugUnset(slug) == slug = NoneVal

\* AfterLink with the test left out
AfterLinkAlways(gitrepo_access_token) == "delete_token"

\* line 298: where the run goes once the Org is linked to its row
AfterLink(gitrepo_access_token) ==
    IF gitrepo_access_token # NoneVal THEN "delete_token" ELSE "complete"

\* WarehouseMissing with the check left out
WarehouseMissingNever(wtype) == FALSE

\* line 95: there is no warehouse
WarehouseMissing(wtype) == wtype = NoneVal

\* AdapterRequirement with the two versions exchanged
AdapterRequirementSwapped(wtype) ==
    IF wtype = "postgres" THEN <<"dbt-postgres", "==", "1.4.3">>
    ELSE IF wtype = "bigquery" THEN <<"dbt-bigquery", "==", "1.4.5">>
    ELSE <<>>

\* AdapterRequirement with `else` where the code has `elif bigquery`
AdapterRequirementElse(wtype) ==
    IF wtype = "postgres" THEN <<"dbt-postgres", "==", "1.4.5">>
    ELSE <<"dbt-bigquery", "==", "1.4.3">>

\* the adapter requirement installed for a warehouse type, <<>> if none
AdapterRequirement(wtype) ==
    IF wtype = "postgres" THEN <<"dbt-postgres", "==", "1.4.5">>
    ELSE IF wtype = "bigquery" THEN <<"dbt-bigquery", "==", "1.4.3">>
    ELSE <<>>

\* the commands
GitCloneCmd(gitrepo_url) == <<"git clone ">> \o gitrepo_url \o <<" dbtrepo">>
VenvCmd == <<"python3 -m venv venv">>
Pip(project_dir) == project_dir \o <<"/", "venv/bin/pip">>
PipUpgradeCmd(project_dir) == Pip(project_dir) \o <<" install --upgrade pip">>
DbtCoreCmd(project_dir, dbtVersion) ==
    Pip(project_dir) \o <<" install ", "dbt-core", "==", dbtVersion>>
AdapterCmd(project_dir, wtype) ==
    Pip(project_dir) \o <<" install ">> \o AdapterRequirement(wtype)

\* NewOrgDbt with the checkout's directory stored as the project directory
NewOrgDbtRepoDir(payload, project_dir, wtype) ==
    [ gitrepo_url |-> payload.gitrepoUrl,
      project_dir |-> DbtRepoDir(project_dir),
      dbt_version |-> payload.dbtVersion,
      target_type |-> wtype,
      default_schema |-> payload.profile.target_configs_schema ]

\* the OrgDbt row built from the request
NewOrgDbt(payload, project_dir, wtype) ==
    [ gitrepo_url |-> payload.gitrepoUrl,
      project_dir |-> project_dir,
      dbt_version |-> payload.dbtVersion,
      target_type |-> wtype,
      default_schema |-> payload.profile.target_configs_schema ]

(* ------------------------------ frames -------------------------------- *)

NoPayload ==
    [ gitrepoUrl |-> <<>>, gitrepoAccessToken |-> NoneVal, dbtVersion |-> NoneVal,
      profile |-> [target_configs_schema |-> NoneVal] ]
NoOrg == [id |-> NoneVal, slug |-> NoneVal, dbt |-> 0]

IdleFrame ==
    [ kind |-> NoneVal, org_id |-> NoneVal, payload |-> NoPayload,
      org |-> NoOrg, wtype |-> NoneVal,
      run |-> 0, arg_gitrepo_url |-> <<>>,
      gitrepo_url |-> <<>>, gitrepo_access_token |-> NoneVal,
      project_dir |-> <<>>, has_taskprogress |-> FALSE, child |-> FALSE,
      clone_ret |-> NoneVal, dbt |-> 0, raised |-> NoneVal ]

Exists(path) == fs[path] # "absent"

Finished(t) == pc[t] = "done"
InFlight(t) == pc[t] \notin {"idle", "done"}

(* ------------------------------- Init --------------------------------- *)

\* concurrent clients of the API
MaxClients == 2
Clients == 1..MaxClients

NoResponse == [op |-> NoneVal, status |-> 0, user |-> 0, org |-> 0]
NoRequest ==
    [ op |-> NoneVal, step |-> NoneVal, caller |-> 0, name |-> NoneVal,
      user |-> [email |-> NoneVal, clientorg |-> 0, active |-> NoneVal] ]

\* the API has served no request
ApiIdle ==
    /\ ClientUser = <<>>
    /\ ClientOrg = <<>>
    /\ Invitation = <<>>
    /\ response = NoResponse
    /\ nreq = 0
    /\ airbyte_calls = <<>>
    /\ inflight = [c \in Clients |-> NoRequest]

\* the project directory the Org's runs use, given the slug its row starts with
HomeDir(slug) == ProjectDir(IF slug = NoneVal THEN Slugify(OrgName) ELSE slug)

\* what the disk holds at the start: nothing, an empty project directory, or
\* the checkout and venv of an earlier provisioning
FsFresh == [p \in Paths |-> "absent"]
FsDir(pd) == [FsFresh EXCEPT ![pd] = "dir"]
FsPrior(pd) ==
    [FsFresh EXCEPT ![pd] = "dir", ![DbtRepoDir(pd)] = "prior", ![VenvDir(pd)] = "dir"]

PriorOrgDbt(pd) ==
    [ gitrepo_url |-> <<"https://", "github.com", "/acme/old">>,
      project_dir |-> pd,
      dbt_version |-> "1.4.0",
      target_type |-> "postgres",
      default_schema |-> "public" ]

Init ==
    /\ ApiIdle
    /\ pc = [t \in Workers |-> "idle"]
    /\ frame = [t \in Workers |-> IdleFrame]
    /\ taskprogress = [t \in Workers |-> <<>>]
    /\ runcmd_calls = [t \in Workers |-> <<>>]
    /\ fs_calls = [t \in Workers |-> <<>>]
    /\ secret_calls = [t \in Workers |-> <<>>]
    /\ finished = <<>>
    /\ clonedBy = [p \in ProjectDirs |-> 0]
    /\ OrgWarehouse \in {NoneVal} \cup WarehouseTypes
    /\ \E slug \in {NoneVal, "test-org"} :
         \/ /\ Org = [slug |-> slug, dbt |-> 0]
            /\ OrgDbt = <<>>
            /\ secrets = NoneVal
            /\ fs \in {FsFresh, FsDir(HomeDir(slug))}
         \/ /\ slug = NoneVal
            /\ Org = [slug |-> slug, dbt |-> 0]
            /\ OrgDbt = <<>>
            /\ secrets = NoneVal
            /\ fs = FsPrior(HomeDir(slug))
         \/ /\ slug # NoneVal
            /\ Org = [slug |-> slug, dbt |-> 1]
            /\ OrgDbt = <<PriorOrgDbt(HomeDir(slug))>>
            /\ secrets = "OLD"
            /\ fs = FsPrior(HomeDir(slug))

(* ------------------------------ dispatch ------------------------------ *)

Free(t) == pc[t] \in {"idle", "done"}

\* tasks dispatched so far
Dispatched == Len(finished) + Cardinality({t \in Workers : pc[t] # "idle"})

\* the runs of one behaviour are serialized: a task is dispatched when no
\* other is in flight, to the lowest free worker
MayDispatch(t) ==
    /\ Free(t)
    /\ Dispatched < MaxRuns
    /\ \A u \in Workers : ~InFlight(u)
    /\ \A u \in Workers : u < t => ~Free(u)

\* how the task a worker holds has ended
Outcome(t) ==
    [ kind |-> frame[t].kind,
      status |-> IF frame[t].raised # NoneVal \/ taskprogress[t] = <<>>
                 THEN "raised"
                 ELSE taskprogress[t][Len(taskprogress[t])].status ]

\* a worker takes a new task: what it held of its last task is put away
Take(t, newframe, label) ==
    /\ finished' = IF pc[t] = "done" THEN Append(finished, Outcome(t)) ELSE finished
    /\ frame' = [frame EXCEPT ![t] = [newframe EXCEPT !.run = Dispatched + 1]]
    /\ pc' = [pc EXCEPT ![t] = label]
    /\ taskprogress' = [taskprogress EXCEPT ![t] = <<>>]
    /\ runcmd_calls' = [runcmd_calls EXCEPT ![t] = <<>>]
    /\ fs_calls' = [fs_calls EXCEPT ![t] = <<>>]
    /\ secret_calls' = [secret_calls EXCEPT ![t] = <<>>]
    /\ UNCHANGED << fs, clonedBy, Org, OrgWarehouse, OrgDbt, secrets >>
    /\ UNCHANGED apivars

\* setup_dbtworkspace.delay(org_id, payload)
DispatchSetup(t) ==
    /\ MayDispatch(t)
    /\ \E org_id \in OrgIds, payload \in Payloads :
         Take(t, [IdleFrame EXCEPT !.kind = "setup", !.org_id = org_id,
                                   !.payload = payload],
              "setup_start")

\* clone_github_repo.delay(gitrepo_url, gitrepo_access_token, project_dir, None),
\* for the project directory of the Org
DispatchClone(t) ==
    /\ MayDispatch(t)
    /\ \E r \in Requests, pd \in {HomeDir(Org.slug)} :
         Take(t, [IdleFrame EXCEPT !.kind = "clone",
                                   !.arg_gitrepo_url = r.gitrepoUrl,
                                   !.gitrepo_url = r.gitrepoUrl,
                                   !.gitrepo_access_token = r.gitrepoAccessToken,
                                   !.project_dir = pd,
                                   !.has_taskprogress = FALSE],
              "clone_start")

(* --------------------------- step helpers ----------------------------- *)

Add(t, entry) ==
    taskprogress' = [taskprogress EXCEPT ![t] = TaskProgressAdd(@, entry)]

Goto(t, label) == pc' = [pc EXCEPT ![t] = label]

\* an exception leaves the task: the worker marks it failed, nothing is appended
Raise(t, exc) ==
    /\ pc' = [pc EXCEPT ![t] = "done"]
    /\ frame' = [frame EXCEPT ![t].raised = exc]

Ran(t, cmd, outcome) ==
    runcmd_calls' = [runcmd_calls EXCEPT ![t] =
        Append(@, [cmd |-> cmd, cwd |-> frame[t].project_dir,
                   exc |-> outcome.exc, returncode |-> outcome.returncode])]

(* ------------------------- clone_github_repo -------------------------- *)

\* lines 25-42, 52: child flag, URL rewrite, which directory branch is taken
CloneStart(t) ==
    /\ pc[t] = "clone_start"
    /\ LET f == frame[t]
           pd == f.project_dir
       IN /\ frame' = [frame EXCEPT
                         ![t].child = f.has_taskprogress,
                         ![t].gitrepo_url =
                             RewriteUrl(f.gitrepo_url, f.gitrepo_access_token)]
          /\ Goto(t, DirBranch(Exists(pd), Exists(DbtRepoDir(pd))))
    /\ UNCHANGED << taskprogress, runcmd_calls, fs_calls, fs, clonedBy,
                    Org, OrgWarehouse, OrgDbt, secrets, secret_calls, finished >>
    /\ UNCHANGED apivars

\* lines 43-50: project_dir.mkdir()
CloneMkdir(t) ==
    /\ pc[t] = "clone_mkdir"
    /\ LET pd == frame[t].project_dir
       IN \E ok \in BOOLEAN :
            IF ok /\ ~Exists(pd)
            THEN /\ fs' = [fs EXCEPT ![pd] = "dir"]
                 /\ fs_calls' = [fs_calls EXCEPT ![t] =
                                   Append(@, [op |-> "mkdir", path |-> pd])]
                 /\ Add(t, Entry(<<"created project_dir">>, "running"))
                 /\ Goto(t, "clone_run")
                 /\ UNCHANGED frame
            ELSE /\ Raise(t, "OSError")
                 /\ UNCHANGED << fs, fs_calls, taskprogress >>
    /\ UNCHANGED << runcmd_calls, clonedBy,
                    Org, OrgWarehouse, OrgDbt, secrets, secret_calls, finished >>
    /\ UNCHANGED apivars

\* line 53: shutil.rmtree(dbtrepo_dir)
CloneRmtree(t) ==
    /\ pc[t] = "clone_rmtree"
    /\ LET pd == frame[t].project_dir
           repo == DbtRepoDir(pd)
       IN \E ok \in BOOLEAN :
            IF ok /\ Exists(repo)
            THEN /\ fs' = [fs EXCEPT ![repo] = "absent"]
                 /\ clonedBy' = [clonedBy EXCEPT ![pd] = 0]
                 /\ fs_calls' = [fs_calls EXCEPT ![t] =
                                   Append(@, [op |-> "rmtree", path |-> repo])]
                 /\ Goto(t, "clone_run")
                 /\ UNCHANGED frame
            ELSE /\ Raise(t, "OSError")
                 /\ fs' = IF Exists(repo) THEN [fs EXCEPT ![repo] = "partial"] ELSE fs
                 /\ clonedBy' = IF Exists(repo) THEN [clonedBy EXCEPT ![pd] = 0]
                                ELSE clonedBy
                 /\ UNCHANGED fs_calls
    /\ UNCHANGED << taskprogress, runcmd_calls,
                    Org, OrgWarehouse, OrgDbt, secrets, secret_calls, finished >>
    /\ UNCHANGED apivars

\* what git clone can end with, given the disk: it needs its working
\* directory and refuses a destination that is already there
CloneOutcomes(pd) ==
    IF ~Exists(pd) THEN {o \in RunOutcomes : o.exc = "OSError"}
    ELSE IF Exists(DbtRepoDir(pd)) THEN {o \in RunOutcomes : o.exc = "CalledProcessError"}
    ELSE RunOutcomes

\* lines 55-76: git clone, the entry it ends with, the return value
CloneRun(t) ==
    /\ pc[t] = "clone_run"
    /\ LET f == frame[t]
           pd == f.project_dir
           repo == DbtRepoDir(pd)
           cmd == GitCloneCmd(f.gitrepo_url)
       IN \E outcome \in CloneOutcomes(pd) :
            /\ Ran(t, cmd, outcome)
            /\ IF CommandPasses(outcome)
               THEN /\ fs' = [fs EXCEPT ![repo] = "clone"]
                    /\ clonedBy' = [clonedBy EXCEPT ![pd] = f.run]
                    /\ Add(t, Entry(<<"cloned git repo">>, CloneDoneStatus(f.child)))
                    /\ frame' = [frame EXCEPT ![t].clone_ret = "True"]
                    /\ Goto(t, AfterClone(f.kind, TRUE))
               ELSE /\ \E left \in {fs[repo], "partial"} :
                         /\ (outcome.exc = "OSError" => left = fs[repo])
                         /\ fs' = [fs EXCEPT ![repo] = left]
                    /\ UNCHANGED clonedBy
                    /\ Add(t, ErrorEntry(<<"git clone failed">>,
                                         ErrorStr(outcome, cmd), "failed"))
                    /\ frame' = [frame EXCEPT ![t].clone_ret = "False"]
                    /\ Goto(t, AfterClone(f.kind, FALSE))
    /\ UNCHANGED << fs_calls, Org, OrgWarehouse, OrgDbt, secrets, secret_calls, finished >>
    /\ UNCHANGED apivars

(* ------------------------- setup_dbtworkspace ------------------------- *)

\* lines 82-92: the first entry, the Org lookup, org.name
SetupStart(t) ==
    /\ pc[t] = "setup_start"
    /\ Add(t, Entry(<<"started">>, "running"))
    /\ IF frame[t].org_id = "org1"
       THEN /\ frame' = [frame EXCEPT ![t].org =
                           [id |-> "org1", slug |-> Org.slug, dbt |-> Org.dbt]]
            /\ Goto(t, "setup_warehouse")
       ELSE Raise(t, "AttributeError")
    /\ UNCHANGED << runcmd_calls, fs_calls, fs, clonedBy,
                    Org, OrgWarehouse, OrgDbt, secrets, secret_calls, finished >>
    /\ UNCHANGED apivars

\* lines 94-103: the warehouse lookup
SetupWarehouse(t) ==
    /\ pc[t] = "setup_warehouse"
    /\ IF WarehouseMissing(OrgWarehouse)
       THEN /\ Add(t, Entry(<<"need to set up a warehouse first">>, "failed"))
            /\ Goto(t, "done")
            /\ UNCHANGED frame
       ELSE /\ frame' = [frame EXCEPT ![t].wtype = OrgWarehouse]
            /\ Goto(t, "setup_slug")
            /\ UNCHANGED taskprogress
    /\ UNCHANGED << runcmd_calls, fs_calls, fs, clonedBy,
                    Org, OrgWarehouse, OrgDbt, secrets, secret_calls, finished >>
    /\ UNCHANGED apivars

\* lines 105-118: the slug, the project directory, the call of clone_github_repo
SetupSlug(t) ==
    /\ pc[t] = "setup_slug"
    /\ LET f == frame[t]
           slug == IF SlugUnset(f.org.slug) THEN Slugify(OrgName) ELSE f.org.slug
       IN \E saved \in BOOLEAN :
            IF SlugUnset(f.org.slug) /\ ~saved
            THEN /\ Raise(t, "DatabaseError")
                 /\ UNCHANGED Org
            ELSE /\ Org' = IF SlugUnset(f.org.slug)
                           THEN [slug |-> slug, dbt |-> f.org.dbt]
                           ELSE Org
                 /\ frame' = [frame EXCEPT
                                ![t].org.slug = slug,
                                ![t].project_dir = ProjectDir(slug),
                                ![t].arg_gitrepo_url = f.payload.gitrepoUrl,
                                ![t].gitrepo_url = f.payload.gitrepoUrl,
                                ![t].gitrepo_access_token = f.payload.gitrepoAccessToken,
                                ![t].has_taskprogress = TRUE]
                 /\ Goto(t, "clone_start")
    /\ UNCHANGED << taskprogress, runcmd_calls, fs_calls, fs, clonedBy,
                    OrgWarehouse, OrgDbt, secrets, secret_calls, finished >>
    /\ UNCHANGED apivars

\* lines 123-143: python3 -m venv venv
MakeVenv(t) ==
    /\ pc[t] = "venv"
    /\ LET pd == frame[t].project_dir
       IN \E outcome \in RunOutcomes :
            /\ Ran(t, VenvCmd, outcome)
            /\ IF CommandPasses(outcome)
               THEN /\ fs' = [fs EXCEPT ![VenvDir(pd)] = "dir"]
                    /\ Add(t, Entry(<<"created venv">>, "running"))
                    /\ Goto(t, "pip")
               ELSE /\ Add(t, ErrorEntry(<<"make venv failed">>,
                                         ErrorStr(outcome, VenvCmd), "failed"))
                    /\ Goto(t, "done")
                    /\ UNCHANGED fs
    /\ UNCHANGED << frame, fs_calls, clonedBy,
                    Org, OrgWarehouse, OrgDbt, secrets, secret_calls, finished >>
    /\ UNCHANGED apivars

\* a pip step: run cmd; go on with okmsg, or end with failmsg
PipStep(t, cmd, okmsg, failmsg, next) ==
    /\ \E outcome \in RunOutcomes :
         /\ Ran(t, cmd, outcome)
         /\ IF PipStepPasses(outcome)
            THEN /\ Add(t, Entry(okmsg, "running"))
                 /\ Goto(t, next)
            ELSE /\ Add(t, ErrorEntry(failmsg, ErrorStr(outcome, cmd), "failed"))
                 /\ Goto(t, "done")
    /\ UNCHANGED << frame, fs_calls, fs, clonedBy,
                    Org, OrgWarehouse, OrgDbt, secrets, secret_calls, finished >>
    /\ UNCHANGED apivars

\* lines 145-177: pip install --upgrade pip
UpgradePip(t) ==
    /\ pc[t] = "pip"
    /\ PipStep(t, PipUpgradeCmd(frame[t].project_dir),
               <<"upgraded pip">>,
               Pip(frame[t].project_dir) \o <<" --upgrade failed">>,
               "core")

\* lines 179-210: pip install dbt-core==<dbtVersion>
InstallCore(t) ==
    /\ pc[t] = "core"
    /\ PipStep(t, DbtCoreCmd(frame[t].project_dir, frame[t].payload.dbtVersion),
               <<"installed dbt-core">>,
               <<"pip install dbt-core=={payload['dbtVersion']} failed">>,
               "adapter")

\* lines 212-283: the adapter for the warehouse type
InstallAdapter(t) ==
    /\ pc[t] = "adapter"
    /\ LET f == frame[t]
           req == AdapterRequirement(f.wtype)
       IN IF req # <<>>
          THEN PipStep(t, AdapterCmd(f.project_dir, f.wtype),
                       <<"installed ", req[1]>>,
                       <<"pip install ">> \o req \o <<" failed">>,
                       "save_dbt")
          ELSE /\ Add(t, Entry(<<"what warehouse is this">>, "failed"))
               /\ Goto(t, "done")
               /\ UNCHANGED << frame, runcmd_calls, fs_calls, fs, clonedBy,
                               Org, OrgWarehouse, OrgDbt, secrets, secret_calls, finished >>
    /\ UNCHANGED apivars

\* lines 285-293: dbt = OrgDbt(...); dbt.save()
SaveOrgDbt(t) ==
    /\ pc[t] = "save_dbt"
    /\ LET f == frame[t]
       IN \E saved \in BOOLEAN :
            IF saved
            THEN /\ OrgDbt' = Append(OrgDbt, NewOrgDbt(f.payload, f.project_dir, f.wtype))
                 /\ frame' = [frame EXCEPT ![t].dbt = Len(OrgDbt) + 1]
                 /\ Goto(t, "link_dbt")
            ELSE /\ Raise(t, "DatabaseError")
                 /\ UNCHANGED OrgDbt
    /\ UNCHANGED << taskprogress, runcmd_calls, fs_calls, fs, clonedBy,
                    Org, OrgWarehouse, secrets, secret_calls, finished >>
    /\ UNCHANGED apivars

\* lines 294-298: org.dbt = dbt; org.save(); is there a token to store
LinkOrgDbt(t) ==
    /\ pc[t] = "link_dbt"
    /\ LET f == frame[t]
       IN \E saved \in BOOLEAN :
            IF saved
            THEN /\ Org' = [slug |-> f.org.slug, dbt |-> f.dbt]
                 /\ frame' = [frame EXCEPT ![t].org.dbt = f.dbt]
                 /\ Goto(t, AfterLink(f.payload.gitrepoAccessToken))
            ELSE /\ Raise(t, "DatabaseError")
                 /\ UNCHANGED Org
    /\ UNCHANGED << taskprogress, runcmd_calls, fs_calls, fs, clonedBy,
                    OrgWarehouse, OrgDbt, secrets, secret_calls, finished >>
    /\ UNCHANGED apivars

\* line 299: secretsmanager.delete_github_token(org)
DeleteToken(t) ==
    /\ pc[t] = "delete_token"
    /\ \E done \in BOOLEAN :
         IF done
         THEN /\ secrets' = NoneVal
              /\ secret_calls' = [secret_calls EXCEPT ![t] =
                     Append(@, [op |-> "delete", token |-> NoneVal])]
              /\ Goto(t, "save_token")
              /\ UNCHANGED frame
         ELSE /\ Raise(t, "SecretsError")
              /\ UNCHANGED << secrets, secret_calls, finished >>
    /\ UNCHANGED << taskprogress, runcmd_calls, fs_calls, finished, fs, clonedBy,
                    Org, OrgWarehouse, OrgDbt >>
    /\ UNCHANGED apivars

\* line 300: secretsmanager.save_github_token(org, token)
SaveToken(t) ==
    /\ pc[t] = "save_token"
    /\ \E done \in BOOLEAN :
         IF done
         THEN /\ secrets' = frame[t].payload.gitrepoAccessToken
              /\ secret_calls' = [secret_calls EXCEPT ![t] =
                     Append(@, [op |-> "save",
                                token |-> frame[t].payload.gitrepoAccessToken])]
              /\ Goto(t, "complete")
              /\ UNCHANGED frame
         ELSE /\ Raise(t, "SecretsError")
              /\ UNCHANGED << secrets, secret_calls, finished >>
    /\ UNCHANGED << taskprogress, runcmd_calls, fs_calls, finished, fs, clonedBy,
                    Org, OrgWarehouse, OrgDbt >>
    /\ UNCHANGED apivars

\* lines 302-308: the last entry
Complete(t) ==
    /\ pc[t] = "complete"
    /\ Add(t, Entry(<<"wrote OrgDbt entry">>, "completed"))
    /\ Goto(t, "done")
    /\ UNCHANGED << frame, runcmd_calls, fs_calls, fs, clonedBy,
                    Org, OrgWarehouse, OrgDbt, secrets, secret_calls, finished >>
    /\ UNCHANGED apivars

(* ---------------------------- specification --------------------------- *)

Next ==
    \E t \in Workers :
        \/ DispatchSetup(t)
        \/ DispatchClone(t)
        \/ CloneStart(t)
        \/ CloneMkdir(t)
        \/ CloneRmtree(t)
        \/ CloneRun(t)
        \/ SetupStart(t)
        \/ SetupWarehouse(t)
        \/ SetupSlug(t)
        \/ MakeVenv(t)
        \/ UpgradePip(t)
        \/ InstallCore(t)
        \/ InstallAdapter(t)
        \/ SaveOrgDbt(t)
        \/ LinkOrgDbt(t)
        \/ DeleteToken(t)
        \/ SaveToken(t)
        \/ Complete(t)

Spec == Init /\ [][Next]_vars

\* what a worker does to the task it holds
Step(t) ==
    \/ CloneStart(t)
    \/ CloneMkdir(t)
    \/ CloneRmtree(t)
    \/ CloneRun(t)
    \/ SetupStart(t)
    \/ SetupWarehouse(t)
    \/ SetupSlug(t)
    \/ MakeVenv(t)
    \/ UpgradePip(t)
    \/ InstallCore(t)
    \/ InstallAdapter(t)
    \/ SaveOrgDbt(t)
    \/ LinkOrgDbt(t)
    \/ DeleteToken(t)
    \/ SaveToken(t)
    \/ Complete(t)

\* every call a task makes returns or raises: a worker holding an unfinished
\* task goes on with it
FairSpec == Spec /\ \A t \in Workers : WF_vars(Step(t))

\* the requests of interleaved runs: one repository, with a token or none
PayloadsInterleaved ==
    {p \in Payloads : p.gitrepoUrl = <<"https://", "github.com", "/acme/dbt">>}

\* the Org of interleaved runs: without a warehouse or with a postgres one;
\* never provisioned, or provisioned before with its checkout on disk
InitInterleaved ==
    /\ Init
    /\ OrgWarehouse \in {NoneVal, "postgres"}
    /\ fs = FsFresh \/ Org.dbt # 0

\* setup_dbtworkspace.delay(org_id, payload) for the Org while another run
\* may be in flight: the task goes to the lowest free worker of the pool
DispatchInterleaved(t) ==
    /\ Free(t)
    /\ Dispatched < MaxRuns
    /\ \A u \in Workers : u < t => ~Free(u)
    /\ \E payload \in PayloadsInterleaved :
         Take(t, [IdleFrame EXCEPT !.kind = "setup", !.org_id = "org1",
                                   !.payload = payload],
              "setup_start")

NextInterleaved ==
    \E t \in Workers :
        \/ DispatchInterleaved(t)
        \/ CloneStart(t)
        \/ CloneMkdir(t)
        \/ CloneRmtree(t)
        \/ CloneRun(t)
        \/ SetupStart(t)
        \/ SetupWarehouse(t)
        \/ SetupSlug(t)
        \/ MakeVenv(t)
        \/ UpgradePip(t)
        \/ InstallCore(t)
        \/ InstallAdapter(t)
        \/ SaveOrgDbt(t)
        \/ LinkOrgDbt(t)
        \/ DeleteToken(t)
        \/ SaveToken(t)
        \/ Complete(t)

\* provisioning runs of one Org dispatched without waiting for one another
SpecInterleaved == InitInterleaved /\ [][NextInterleaved]_vars

(* ------------------------------- claims ------------------------------- *)

Terminal(entry) == entry.status \in {"failed", "completed"}
Last(seq) == seq[Len(seq)]
HasStatus(t, status) ==
    \E i \in 1..Len(taskprogress[t]) : taskprogress[t][i].status = status
HasMessage(t, message) ==
    \E i \in 1..Len(taskprogress[t]) : taskprogress[t][i].message = message

\* C1: in the progress log of every task, every entry before the last has
\* status running: a failed or completed entry is the last entry, there is
\* at most one, and nothing is appended after it.
C1_TerminalEntryIsLast ==
    \A t \in Workers :
        \A i \in 1..Len(taskprogress[t]) :
            /\ taskprogress[t][i].status \in {"running", "failed", "completed"}
            /\ i < Len(taskprogress[t]) => taskprogress[t][i].status = "running"

\* a provisioning run that ended on a failed entry after several running ones
C1_Witness ==
    \E t \in Workers :
        /\ Finished(t)
        /\ frame[t].kind = "setup"
        /\ Len(taskprogress[t]) >= 4
        /\ Last(taskprogress[t]).status = "failed"

\* C2: no exception ever escapes setup_dbtworkspace: whatever step fails
\* (Org lookup, directory creation or removal, a command, the OrgDbt writes,
\* the secret store), the run ends by returning, never by raising.
C2_NoExceptionEscapes ==
    \A t \in Workers :
        frame[t].kind = "setup" => frame[t].raised = NoneVal

\* C3: a successful clone_github_repo ends its entries with `cloned git repo`,
\* status running when nested in setup_dbtworkspace and completed when
\* standalone; a provisioning log holds a completed entry only once the
\* OrgDbt row of the run is saved and linked to the Org.
C3_NestedCloneNeverCompletes ==
    \A t \in Workers :
        /\ (frame[t].kind = "clone" /\ frame[t].clone_ret = "True")
              => Last(taskprogress[t]) = Entry(<<"cloned git repo">>, "completed")
        /\ (frame[t].kind = "setup" /\ frame[t].clone_ret = "True")
              => /\ HasMessage(t, <<"cloned git repo">>)
                 /\ \A i \in 1..Len(taskprogress[t]) :
                       taskprogress[t][i].message = <<"cloned git repo">>
                          => taskprogress[t][i].status = "running"
        /\ (frame[t].kind = "setup" /\ HasStatus(t, "completed"))
              => /\ frame[t].dbt \in 1..Len(OrgDbt)
                 /\ frame[t].org.dbt = frame[t].dbt

\* a standalone clone has succeeded, and then a provisioning run with its
\* nested clone
C3_Witness ==
    /\ \E k \in 1..Len(finished) :
          finished[k] = [kind |-> "clone", status |-> "completed"]
    /\ \E t \in Workers :
          /\ frame[t].kind = "setup"
          /\ frame[t].clone_ret = "True"
          /\ HasStatus(t, "completed")

\* the i-th command of a run ended well: exit 0, or the tolerated exit of a
\* pip step (the third command onwards)
CallPassed(t, i) ==
    LET c == runcmd_calls[t][i]
    IN \/ c.exc = "none"
       \/ i >= 3 /\ c.exc = "CalledProcessError" /\ c.returncode = BENIGN_RETURNCODE

\* the five commands of a provisioning run, in order
StepCmds(t) ==
    LET f == frame[t]
    IN << GitCloneCmd(f.gitrepo_url), VenvCmd, PipUpgradeCmd(f.project_dir),
          DbtCoreCmd(f.project_dir, f.payload.dbtVersion),
          AdapterCmd(f.project_dir, f.wtype) >>

AllStepsPassed(t) ==
    /\ Len(runcmd_calls[t]) = 5
    /\ LET cmds == StepCmds(t)
       IN \A i \in 1..5 : runcmd_calls[t][i].cmd = cmds[i] /\ CallPassed(t, i)

\* C4: an OrgDbt row is created, and the Org linked to it, only by a run whose
\* clone, venv, pip upgrade, dbt-core install and adapter install have all
\* passed (exit 0, or 120 in the pip steps) and whose log holds no failed
\* entry; a run whose log holds a failed entry has created no row.
C4_RowOnlyAfterAllSteps ==
    /\ [](\A t \in Workers :
             /\ HasStatus(t, "failed") => frame[t].dbt = 0
             /\ frame[t].dbt # 0
                   => /\ frame[t].dbt \in 1..Len(OrgDbt)
                      /\ AllStepsPassed(t)
                      /\ ~HasStatus(t, "failed"))
    /\ [][ (OrgDbt' # OrgDbt \/ Org'.dbt # Org.dbt)
              => \E t \in Workers :
                    /\ frame[t].kind = "setup"
                    /\ AllStepsPassed(t)
                    /\ ~HasStatus(t, "failed")
                    /\ frame'[t].dbt = Len(OrgDbt')
                    /\ OrgDbt' \in {OrgDbt, Append(OrgDbt, OrgDbt'[Len(OrgDbt')])}
                    /\ Org'.dbt \in {Org.dbt, frame'[t].dbt} ]_vars

\* after a run that failed, a run has created its row past a tolerated exit
\* 120 and linked the Org to it
C4_Witness ==
    /\ \E k \in 1..Len(finished) : finished[k].status = "failed"
    /\ \E t \in Workers :
          /\ frame[t].dbt # 0
          /\ Org.dbt = frame[t].dbt
          /\ \E i \in 3..5 : runcmd_calls[t][i].returncode = BENIGN_RETURNCODE

\* C5: a provisioning run for an Org without a warehouse runs no command and
\* creates or deletes no directory, and ends with the log
\* started, need to set up a warehouse first (failed).
C5_NoWarehouseFailsFast ==
    \A t \in Workers :
        (frame[t].kind = "setup" /\ OrgWarehouse = NoneVal)
           => /\ runcmd_calls[t] = <<>>
              /\ fs_calls[t] = <<>>
              /\ frame[t].dbt = 0
              /\ (Finished(t) /\ frame[t].org.id # NoneVal)
                    => /\ taskprogress[t] =
                            << Entry(<<"started">>, "running"),
                               Entry(<<"need to set up a warehouse first">>, "failed") >>
                       /\ frame[t].raised = NoneVal

\* a run for an Org without a warehouse has ended
C5_Witness ==
    \E t \in Workers :
        /\ frame[t].kind = "setup"
        /\ OrgWarehouse = NoneVal
        /\ frame[t].org.id # NoneVal
        /\ Finished(t)
        /\ Len(taskprogress[t]) = 2

\* position in the log of the entry appended with the i-th command of a run:
\* after started and, if the run made the project directory, created project_dir
MadeProjectDir(t) ==
    \E k \in 1..Len(fs_calls[t]) : fs_calls[t][k].op = "mkdir"
EntryOfCall(t, i) ==
    taskprogress[t][i + 1 + (IF MadeProjectDir(t) THEN 1 ELSE 0)]

\* the running entry a pip step appends when it goes on
PipStepOkEntry(t, i) ==
    Entry(CASE i = 3 -> <<"upgraded pip">>
            [] i = 4 -> <<"installed dbt-core">>
            [] OTHER -> IF frame[t].wtype = "postgres"
                        THEN <<"installed ", "dbt-postgres">>
                        ELSE <<"installed ", "dbt-bigquery">>,
          "running")

\* the run did not stop at its i-th command: it has not returned with the
\* entry of that command as its last
WentOn(t, i) ==
    ~(/\ Finished(t)
      /\ frame[t].raised = NoneVal
      /\ Len(taskprogress[t]) = i + 1 + (IF MadeProjectDir(t) THEN 1 ELSE 0))

\* C6: in the pip-upgrade, dbt-core and adapter steps (commands 3, 4, 5 of a
\* run), exit code 120 appends no failed entry but the step's running entry
\* and the run goes on; any other nonzero exit code appends a failed entry,
\* which is the last thing the run does.
C6_ExitCode120Tolerated ==
    \A t \in Workers :
        frame[t].kind = "setup" =>
            \A i \in 3..Len(runcmd_calls[t]) :
                LET c == runcmd_calls[t][i]
                IN /\ (c.exc = "CalledProcessError" /\ c.returncode = BENIGN_RETURNCODE)
                        => /\ EntryOfCall(t, i) = PipStepOkEntry(t, i)
                           /\ WentOn(t, i)
                   /\ (c.exc = "CalledProcessError" /\ c.returncode # BENIGN_RETURNCODE)
                        => /\ EntryOfCall(t, i).status = "failed"
                           /\ Last(taskprogress[t]) = EntryOfCall(t, i)
                           /\ Len(runcmd_calls[t]) = i
                           /\ Finished(t)
                           /\ frame[t].raised = NoneVal
                           /\ frame[t].dbt = 0

\* one run got exit 120 from pip upgrade and dbt-core install and went on,
\* then got exit 1 from the adapter install
C6_Witness ==
    \E t \in Workers :
        /\ Len(runcmd_calls[t]) = 5
        /\ runcmd_calls[t][3].returncode = BENIGN_RETURNCODE
        /\ runcmd_calls[t][4].returncode = BENIGN_RETURNCODE
        /\ runcmd_calls[t][5].returncode = 1
        /\ Finished(t)

\* number of places of s where sub occurs
RECURSIVE Occurrences(_, _)
Occurrences(s, sub) ==
    IF Len(s) < Len(sub) THEN 0
    ELSE (IF SubSeq(s, 1, Len(sub)) = sub THEN 1 ELSE 0) + Occurrences(Tail(s), sub)

IsCloneCall(c) == c.cmd[1] = "git clone "
\* the URL of a git clone command
ClonedUrl(c) == SubSeq(c.cmd, 2, Len(c.cmd) - 1)

\* C7: the URL in the clone command holds a non-null token exactly once,
\* right after `oauth2:` and right before `@github.com`, the rest of the
\* request's URL being unchanged; with a null token it is the request's URL.
C7_TokenExactlyOnce ==
    \A t \in Workers :
        \A i \in 1..Len(runcmd_calls[t]) :
            LET c == runcmd_calls[t][i]
                tok == frame[t].gitrepo_access_token
                url == frame[t].arg_gitrepo_url
            IN IsCloneCall(c) =>
                 IF tok = NoneVal
                 THEN ClonedUrl(c) = url
                 ELSE /\ Occurrences(ClonedUrl(c), <<tok>>) = 1
                      /\ Occurrences(ClonedUrl(c),
                                     <<"oauth2:", tok, "@", "github.com">>) = 1
                      /\ Len(ClonedUrl(c)) = Len(url) + 3

\* C8: the clone command is about to run only with no dbtrepo under the
\* project directory: a dbtrepo found at the start was removed first.
C8_OldCheckoutRemovedFirst ==
    \A t \in Workers :
        pc[t] = "clone_run" => ~Exists(DbtRepoDir(frame[t].project_dir))

\* a clone is about to run in a project directory whose old checkout the
\* task has removed
C8_Witness ==
    \E t \in Workers :
        /\ pc[t] = "clone_run"
        /\ fs_calls[t] =
              <<[op |-> "rmtree", path |-> DbtRepoDir(frame[t].project_dir)]>>

\* C9: for a warehouse type other than postgres and bigquery, a run whose
\* first four commands passed runs no fifth command, creates no OrgDbt row,
\* makes no secret-store call, and ends by returning with
\* `what warehouse is this` (failed) right after `installed dbt-core`.
C9_UnsupportedWarehouse ==
    \A t \in Workers :
        ( /\ frame[t].kind = "setup"
          /\ frame[t].wtype \notin {NoneVal, "postgres", "bigquery"}
          /\ Len(runcmd_calls[t]) >= 4
          /\ CallPassed(t, 4) )
        => /\ Len(runcmd_calls[t]) = 4
           /\ frame[t].dbt = 0
           /\ secret_calls[t] = <<>>
           /\ pc[t] \in {"adapter", "done"}
           /\ Finished(t)
                => /\ frame[t].raised = NoneVal
                   /\ Last(taskprogress[t]) =
                         Entry(<<"what warehouse is this">>, "failed")
                   /\ taskprogress[t][Len(taskprogress[t]) - 1] =
                         Entry(<<"installed dbt-core">>, "running")

\* a run for a snowflake warehouse has ended after four passed commands
C9_Witness ==
    \E t \in Workers :
        /\ frame[t].wtype = "snowflake"
        /\ Len(runcmd_calls[t]) = 4
        /\ CallPassed(t, 4)
        /\ Finished(t)

\* the request's URL with the token embedded before its host:
\* scheme://oauth2:<token>@host/owner/repo
TokenEmbeddedUrl(url, tok) ==
    IF tok = NoneVal THEN url
    ELSE <<Head(url)>> \o <<"oauth2:", tok, "@">> \o Tail(url)

\* a provisioning run for a supported warehouse type has returned and every
\* command it ran exited 0
CleanRun(t) ==
    /\ frame[t].kind = "setup"
    /\ Finished(t)
    /\ frame[t].raised = NoneVal
    /\ frame[t].wtype \in {"postgres", "bigquery"}
    /\ \A i \in 1..Len(runcmd_calls[t]) : runcmd_calls[t][i].exc = "none"

\* C10: a run for a supported warehouse type in which every command exits 0
\* has run, in <root>/<slug>: git clone of the token-embedded URL into
\* dbtrepo, venv creation, pip upgrade, dbt-core==<version> install and the
\* adapter install, in this order; its log is started, [created project_dir],
\* cloned git repo, created venv, upgraded pip, installed dbt-core,
\* installed dbt-<adapter> (all running), wrote OrgDbt entry (completed); and
\* it has created and linked one OrgDbt row holding the request's URL, the
\* project directory, the version, the warehouse type and the schema.
C10_HappyPath ==
    \A t \in Workers :
        CleanRun(t) =>
            LET f == frame[t]
                pd == ProjectDir(f.org.slug)
                pip == pd \o <<"/", "venv/bin/pip">>
                adapter == IF f.wtype = "postgres"
                           THEN <<"dbt-postgres", "==", "1.4.5">>
                           ELSE <<"dbt-bigquery", "==", "1.4.3">>
                R(m) == Entry(m, "running")
            IN /\ [i \in 1..Len(runcmd_calls[t]) |-> runcmd_calls[t][i].cmd] =
                     << <<"git clone ">>
                           \o TokenEmbeddedUrl(f.payload.gitrepoUrl,
                                               f.payload.gitrepoAccessToken)
                           \o <<" dbtrepo">>,
                        <<"python3 -m venv venv">>,
                        pip \o <<" install --upgrade pip">>,
                        pip \o <<" install ", "dbt-core", "==", f.payload.dbtVersion>>,
                        pip \o <<" install ">> \o adapter >>
               /\ \A i \in 1..Len(runcmd_calls[t]) : runcmd_calls[t][i].cwd = pd
               /\ taskprogress[t] =
                     <<R(<<"started">>)>>
                     \o (IF MadeProjectDir(t) THEN <<R(<<"created project_dir">>)>>
                         ELSE <<>>)
                     \o << R(<<"cloned git repo">>), R(<<"created venv">>),
                           R(<<"upgraded pip">>), R(<<"installed dbt-core">>),
                           R(<<"installed ", adapter[1]>>),
                           Entry(<<"wrote OrgDbt entry">>, "completed") >>
               /\ f.dbt \in 1..Len(OrgDbt)
               /\ Org.dbt = f.dbt
               /\ OrgDbt[f.dbt] =
                     [ gitrepo_url |-> f.payload.gitrepoUrl,
                       project_dir |-> pd,
                       dbt_version |-> f.payload.dbtVersion,
                       target_type |-> f.wtype,
                       default_schema |-> f.payload.profile.target_configs_schema ]

\* the entries of a log that have status failed
FailedEntries(t) ==
    {i \in 1..Len(taskprogress[t]) : taskprogress[t][i].status = "failed"}

\* str(error) of the exception a recorded command ended with
CapturedError(c) ==
    ErrorStr([exc |-> c.exc, returncode |-> c.returncode], c.cmd)

\* C11: when the git clone command fails, clone_github_repo has appended
\* exactly one failed entry, `git clone failed` with the captured error, as
\* the last entry, has returned False and raised nothing; nested in
\* setup_dbtworkspace, the run has ended there: the clone is the only command
\* it ran, and it wrote no row and made no secret-store call.
C11_CloneFailureStops ==
    \A t \in Workers :
        /\ (Len(runcmd_calls[t]) >= 1 /\ runcmd_calls[t][1].exc # "none")
              => frame[t].clone_ret = "False"
        /\ frame[t].clone_ret = "False"
              => /\ Len(runcmd_calls[t]) = 1
                 /\ IsCloneCall(runcmd_calls[t][1])
                 /\ runcmd_calls[t][1].exc # "none"
                 /\ Last(taskprogress[t]) =
                       [ message |-> <<"git clone failed">>,
                         error |-> CapturedError(runcmd_calls[t][1]),
                         status |-> "failed" ]
                 /\ Cardinality(FailedEntries(t)) = 1
                 /\ frame[t].raised = NoneVal
                 /\ Finished(t)
                 /\ frame[t].dbt = 0
                 /\ secret_calls[t] = <<>>

\* the clone nested in a provisioning run has failed with exit code 1
C11_Witness ==
    \E t \in Workers :
        /\ frame[t].kind = "setup"
        /\ frame[t].clone_ret = "False"
        /\ runcmd_calls[t][1].returncode = 1
        /\ Len(taskprogress[t]) >= 2

\* the secret-store calls of a run that rotates the credential
Rotation(tok) ==
    << [op |-> "delete", token |-> NoneVal], [op |-> "save", token |-> tok] >>

IsPrefix(s, full) == Len(s) <= Len(full) /\ s = SubSeq(full, 1, Len(s))

\* C12: the commands of a run are, in order, a prefix of clone, venv, pip
\* upgrade, dbt-core install, adapter install, and every command but the last
\* one run has passed; the OrgDbt row is written only after all five passed,
\* the Org is linked only to a written row, the secret store is called only
\* after the link, delete before save; a command that did not pass is the last
\* thing the run did: the run has ended with no row and no secret-store call,
\* and a run that raised has made no call after.
C12_StepsInOrder ==
    \A t \in Workers :
        frame[t].kind = "setup" =>
            LET f == frame[t]
                calls == runcmd_calls[t]
            IN /\ Len(calls) <= 5
               /\ \A i \in 1..Len(calls) :
                     /\ calls[i].cmd = StepCmds(t)[i]
                     /\ i < Len(calls) => CallPassed(t, i)
                     /\ ~CallPassed(t, i)
                           => /\ Finished(t)
                              /\ f.dbt = 0
                              /\ secret_calls[t] = <<>>
                              /\ ~HasStatus(t, "completed")
               /\ f.dbt # 0 => AllStepsPassed(t)
               /\ pc[t] \in {"link_dbt", "delete_token", "save_token", "complete"}
                     => f.dbt # 0
               /\ secret_calls[t] # <<>>
                     => /\ f.dbt # 0
                        /\ f.org.dbt = f.dbt
                        /\ IsPrefix(secret_calls[t], Rotation(f.payload.gitrepoAccessToken))
               /\ HasStatus(t, "completed")
                     => /\ f.org.dbt = f.dbt
                        /\ f.dbt # 0
                        /\ secret_calls[t] \in {<<>>, Rotation(f.payload.gitrepoAccessToken)}
               /\ (f.raised # NoneVal \/ HasStatus(t, "failed")) => Finished(t)

\* a run has stopped at a failed dbt-core install, its fourth command
C12_Witness ==
    \E t \in Workers :
        /\ frame[t].kind = "setup"
        /\ Len(runcmd_calls[t]) = 4
        /\ runcmd_calls[t][4].returncode = 1
        /\ CallPassed(t, 3)
        /\ Finished(t)

\* the log of a worker's task ends on a completed or failed entry
EndsOnTerminalEntry(t) ==
    taskprogress[t] # <<>> /\ Terminal(Last(taskprogress[t]))

\* C13: every call returning or raising in the end, every dispatched
\* setup_dbtworkspace run eventually has a completed or failed entry as the
\* last entry of its log, and no run has ended with its log empty or ending
\* on a running entry.
C13_RunEndsOnTerminalEntry ==
    /\ [](\A t \in Workers :
             (frame[t].kind = "setup" /\ Finished(t)) => EndsOnTerminalEntry(t))
    /\ \A t \in Workers : \A r \in 1..MaxRuns :
          (frame[t].kind = "setup" /\ frame[t].run = r /\ pc[t] = "setup_start")
             ~> (frame[t].run = r /\ EndsOnTerminalEntry(t))

\* C14: a run makes secret-store calls only if its request carries a token,
\* only once the Org is linked to the run's row and while its log holds no
\* completed or failed entry: first delete, then save of the request's token;
\* when the completed entry of such a run is appended both calls have been
\* made, and the store holds the request's token; a run without a token, or
\* one that failed before the link, has made no call and the store is only
\* ever changed by such a call.
C14_DeleteThenSave ==
    /\ [](\A t \in Workers :
             frame[t].kind = "setup" =>
                LET f == frame[t]
                    tok == f.payload.gitrepoAccessToken
                IN /\ IsPrefix(secret_calls[t], Rotation(tok))
                   /\ secret_calls[t] # <<>>
                         => /\ tok # NoneVal
                            /\ f.dbt \in 1..Len(OrgDbt)
                            /\ f.org.dbt = f.dbt
                            /\ ~HasStatus(t, "failed")
                   /\ (tok = NoneVal \/ HasStatus(t, "failed") \/ f.org.dbt # f.dbt
                          \/ f.dbt = 0)
                         => secret_calls[t] = <<>>
                   /\ (HasStatus(t, "completed") /\ tok # NoneVal)
                         => secret_calls[t] = Rotation(tok))
    /\ [][ \A t \in Workers :
              (frame'[t].run = frame[t].run /\ secret_calls'[t] # secret_calls[t])
                 => /\ ~HasStatus(t, "completed")
                    /\ frame[t].org.dbt = frame[t].dbt /\ frame[t].dbt # 0
                    /\ Org.dbt = frame[t].dbt ]_vars
    /\ [][ secrets' # secrets
              => \E t \in Workers :
                    /\ frame[t].payload.gitrepoAccessToken # NoneVal
                    /\ secret_calls'[t] # secret_calls[t]
                    /\ secrets' = Last(secret_calls'[t]).token ]_vars

\* a run with a token has replaced the stored credential and completed, and
\* before it a run had failed without touching the store
C14_Witness ==
    /\ \E k \in 1..Len(finished) : finished[k] = [kind |-> "setup", status |-> "failed"]
    /\ \E t \in Workers :
          /\ HasStatus(t, "completed")
          /\ secret_calls[t] = Rotation("TOK")
          /\ secrets = "TOK"

\* a provisioning run of an Org with a supported warehouse has ended, every
\* command it ran exited 0, and an earlier run had failed
CleanRetry(t) ==
    /\ frame[t].kind = "setup"
    /\ Finished(t)
    /\ frame[t].wtype \in {"postgres", "bigquery"}
    /\ \A i \in 1..Len(runcmd_calls[t]) : runcmd_calls[t][i].exc = "none"
    /\ \E k \in 1..Len(finished) :
          finished[k] = [kind |-> "setup", status |-> "failed"]

\* C15: a run that follows a failed run of the same Org and whose commands
\* all succeed ends with completed, with a dbtrepo under the project
\* directory that its own clone made and with its OrgDbt row written and
\* linked to the Org, whatever the failed run left on disk.
C15_RetryRecovers ==
    \A t \in Workers :
        CleanRetry(t) =>
            LET f == frame[t]
                pd == ProjectDir(Org.slug)
            IN /\ EndsOnTerminalEntry(t)
               /\ Last(taskprogress[t]).status = "completed"
               /\ fs[DbtRepoDir(pd)] = "clone"
               /\ clonedBy[pd] = f.run
               /\ f.dbt \in 1..Len(OrgDbt)
               /\ Org.dbt = f.dbt

\* a provisioning run is between its clone step and its terminal entry
HoldsCheckout(t) ==
    /\ frame[t].kind = "setup"
    /\ frame[t].clone_ret = "True"
    /\ InFlight(t)

\* C16: while a provisioning run is between its clone step and its terminal
\* entry, the project directory is there and its dbtrepo is the checkout that
\* run cloned: no other run of the Org has removed it, cloned over it or left
\* it half removed; so the run that appends completed has its checkout.
C16_ExclusiveOwnership ==
    \A t \in Workers :
        HoldsCheckout(t) =>
            LET pd == frame[t].project_dir
            IN /\ Exists(pd)
               /\ fs[DbtRepoDir(pd)] = "clone"
               /\ clonedBy[pd] = frame[t].run

\* the OrgDbt rows created by the runs of the behaviour (the row the Org may
\* start with is none of them)
CreatedRows ==
    {i \in 1..Len(OrgDbt) : OrgDbt[i] # PriorOrgDbt(OrgDbt[i].project_dir)}

\* number of provisioning runs that appended completed
CompletedRuns ==
    Cardinality({k \in 1..Len(finished) :
                    finished[k] = [kind |-> "setup", status |-> "completed"]})
    + Cardinality({t \in Workers :
                    frame[t].kind = "setup" /\ HasStatus(t, "completed")})

\* C17: when no run is in flight, as many OrgDbt rows have been created as
\* runs have appended completed, and if a run has completed the Org
\* references the row created last; a row once created is never changed or
\* removed, rows are only added.
C17_OneRowPerCompletedRun ==
    /\ []( (\A t \in Workers : ~InFlight(t))
              => /\ Cardinality(CreatedRows) = CompletedRuns
                 /\ CompletedRuns > 0 => Org.dbt = Len(OrgDbt) )
    /\ [][ /\ Len(OrgDbt') >= Len(OrgDbt)
           /\ \A i \in 1..Len(OrgDbt) : OrgDbt'[i] = OrgDbt[i] ]_vars

\* C18: the Org's slug is set only by a run that is past the warehouse check,
\* only when it is unset, to slugify of the Org's name; once set it never
\* changes, whether runs follow one another or are interleaved; and every run
\* that has a project directory has the one named by the Org's slug, on
\* which all the commands it ran were run.
C18_SlugAssignedOnce ==
    /\ [][ /\ Org.slug # NoneVal => Org'.slug = Org.slug
           /\ Org'.slug # Org.slug
                 => /\ Org'.slug = "acme"
                    /\ \E t \in Workers :
                          /\ pc[t] = "setup_slug"
                          /\ frame[t].wtype # NoneVal
                          /\ OrgWarehouse # NoneVal
                          /\ frame'[t].org.slug = "acme" ]_vars
    /\ [](\A t \in Workers :
             frame[t].kind = "setup" =>
                /\ frame[t].project_dir # <<>>
                      => /\ Org.slug # NoneVal
                         /\ frame[t].project_dir = <<"/clientdbt", "/", Org.slug>>
                /\ \A i \in 1..Len(runcmd_calls[t]) :
                      runcmd_calls[t][i].cwd = <<"/clientdbt", "/", Org.slug>>)

\* two interleaved runs have both read the Org without a slug, one has set
\* it, and both have cloned into the same project directory
C18_Witness ==
    /\ Org.slug = "acme"
    /\ \A t \in Workers :
          /\ frame[t].kind = "setup"
          /\ frame[t].run = t
          /\ Len(runcmd_calls[t]) >= 1
          /\ \E k \in 1..Len(taskprogress[t]) :
                taskprogress[t][k].message = <<"started">>
    /\ \E t \in Workers : MadeProjectDir(t)

\* a command that installs a dbt adapter
IsAdapterInstall(c) ==
    /\ Len(c.cmd) >= 5
    /\ c.cmd[Len(c.cmd) - 3] = " install "
    /\ c.cmd[Len(c.cmd) - 2] \in {"dbt-postgres", "dbt-bigquery", "dbt-snowflake"}

\* C19: a run installs an adapter only for the warehouse type it read at its
\* start, which is the Org's: for postgres the command ends in
\* `install dbt-postgres==1.4.5`, for bigquery in `install dbt-bigquery==1.4.3`,
\* for any other type there is no such command; a run has at most one adapter
\* install command, its fifth; and the target_type of the row a run wrote is
\* that warehouse type.
C19_AdapterByWarehouseType ==
    \A t \in Workers :
        frame[t].kind = "setup" =>
            LET calls == runcmd_calls[t]
                installs == {i \in 1..Len(calls) : IsAdapterInstall(calls[i])}
                wtype == frame[t].wtype
            IN /\ Cardinality(installs) <= 1
               /\ installs \subseteq {5}
               /\ Len(calls) >= 5 => installs = {5}
               /\ \A i \in installs :
                     /\ wtype = OrgWarehouse
                     /\ wtype \in {"postgres", "bigquery"}
                     /\ wtype = "postgres"
                           => SubSeq(calls[i].cmd, Len(calls[i].cmd) - 3, Len(calls[i].cmd))
                                 = <<" install ", "dbt-postgres", "==", "1.4.5">>
                     /\ wtype = "bigquery"
                           => SubSeq(calls[i].cmd, Len(calls[i].cmd) - 3, Len(calls[i].cmd))
                                 = <<" install ", "dbt-bigquery", "==", "1.4.3">>
               /\ frame[t].dbt # 0
                     => /\ OrgDbt[frame[t].dbt].target_type = wtype
                        /\ wtype = OrgWarehouse
                        /\ installs = {5}

\* a run for a bigquery warehouse has installed its adapter and written its row
C19_Witness ==
    \E t \in Workers :
        /\ frame[t].wtype = "bigquery"
        /\ Len(runcmd_calls[t]) = 5
        /\ IsAdapterInstall(runcmd_calls[t][5])
        /\ frame[t].dbt # 0
        /\ OrgDbt[frame[t].dbt].target_type = "bigquery"

\* the failed entry of the first two commands of a run
EarlyStepFailure(i) ==
    IF i = 1 THEN <<"git clone failed">> ELSE <<"make venv failed">>

\* C20: when the git clone command or the venv command of a run ends with a
\* nonzero exit code, 120 included, or cannot be started, the step's failed
\* entry with the captured error is the last entry of the log, the run has
\* returned, that command is the last one it ran and it wrote no row.
C20_NoToleranceBeforePip ==
    \A t \in Workers :
        \A i \in 1..Len(runcmd_calls[t]) :
            LET c == runcmd_calls[t][i]
            IN (i <= 2 /\ c.exc # "none")
                  => /\ Len(runcmd_calls[t]) = i
                     /\ Finished(t)
                     /\ frame[t].raised = NoneVal
                     /\ Last(taskprogress[t]) =
                           [ message |-> EarlyStepFailure(i),
                             error |-> CapturedError(c),
                             status |-> "failed" ]
                     /\ frame[t].dbt = 0
                     /\ secret_calls[t] = <<>>

\* a run has stopped at a venv command that exited with 120, after a run
\* that failed
C20_Witness ==
    /\ \E k \in 1..Len(finished) : finished[k].status = "failed"
    /\ \E t \in Workers :
          /\ Len(runcmd_calls[t]) = 2
          /\ runcmd_calls[t][2].exc = "CalledProcessError"
          /\ runcmd_calls[t][2].returncode = BENIGN_RETURNCODE
          /\ Finished(t)

\* every task so far was a provisioning run that has returned with a
\* completed or failed entry
OnlyReturnedRuns ==
    /\ \A k \in 1..Len(finished) :
          finished[k].kind = "setup" /\ finished[k].status \in {"completed", "failed"}
    /\ \A t \in Workers :
          pc[t] # "idle" => /\ frame[t].kind = "setup"
                            /\ Finished(t)
                            /\ EndsOnTerminalEntry(t)

\* the directory of the row the Org references holds a checkout
ReferencedCheckoutPresent ==
    fs[DbtRepoDir(OrgDbt[Org.dbt].project_dir)] \in {"clone", "prior"}

EntryTexts(e) ==
    {e.message} \cup (IF "error" \in DOMAIN e THEN {e.error} ELSE {})

\* C22: the access token of a task's request occurs in no message and no
\* error text of its progress log, so the log of a run is the same whatever
\* the value of the token, the error text of a `git clone failed` entry
\* included.
C22_TokenNotInLog ==
    \A t \in Workers :
        \A tok \in {frame[t].gitrepo_access_token, frame[t].payload.gitrepoAccessToken} :
            tok # NoneVal =>
                \A i \in 1..Len(taskprogress[t]) :
                    \A text \in EntryTexts(taskprogress[t][i]) :
                        Occurrences(text, <<tok>>) = 0

(* ====================================================================== *)
(*                     the client API (ddpui/clientapi.py)                 *)
(* ====================================================================== *)

\* requests received in one behaviour
MaxRequests == 3

Emails == {"a@x.org", "b@x.org"}
OrgNames == {"acme", "beta"}
InviteCodes == {"code-1", "code-2"}
\* payload.active of ClientUserUpdate: absent, or a value
ActiveInputs == {NoneVal, "False"}

HTTP_OK == 200
HTTP_BAD_REQUEST == 400
HTTP_SERVER_ERROR == 500

taskvars == << pc, frame, taskprogress, runcmd_calls, fs_calls, secret_calls,
               finished, fs, clonedBy, Org, OrgWarehouse, OrgDbt, secrets >>

\* no provisioning task was ever dispatched
TasksIdle ==
    /\ pc = [t \in Workers |-> "idle"]
    /\ frame = [t \in Workers |-> IdleFrame]
    /\ taskprogress = [t \in Workers |-> <<>>]
    /\ runcmd_calls = [t \in Workers |-> <<>>]
    /\ fs_calls = [t \in Workers |-> <<>>]
    /\ secret_calls = [t \in Workers |-> <<>>]
    /\ finished = <<>>
    /\ clonedBy = [p \in ProjectDirs |-> 0]
    /\ OrgWarehouse = NoneVal
    /\ Org = [slug |-> NoneVal, dbt |-> 0]
    /\ OrgDbt = <<>>
    /\ secrets = NoneVal
    /\ fs = FsFresh

(* ------------------------------ the tables ---------------------------- *)

\* Model.objects.create(...): a row; a foreign key holds the id of the row it
\* names, 0 for None
NewUser(email, clientorg) == [email |-> email, clientorg |-> clientorg, active |-> "True"]
NewOrg(name) == [name |-> name, airbyte_workspace_id |-> 0]
NewInvitation(invited_email, invited_by, invite_code) ==
    [invited_email |-> invited_email, invited_by |-> invited_by, invite_code |-> invite_code]

\* QuerySet.first(): the matching row of lowest id, 0 when there is none
FirstId(ids) == IF ids = {} THEN 0 ELSE CHOOSE i \in ids : \A j \in ids : i <= j

UsersByEmail(email) == {i \in 1..Len(ClientUser) : ClientUser[i].email = email}
UsersByEmailAndOrg(email, clientorg) ==
    {i \in UsersByEmail(email) : ClientUser[i].clientorg = clientorg}
OrgsByName(name) == {i \in 1..Len(ClientOrg) : ClientOrg[i].name = name}
InvitationsByEmail(email) == {i \in 1..Len(Invitation) : Invitation[i].invited_email = email}
InvitationsByCode(code) == {i \in 1..Len(Invitation) : Invitation[i].invite_code = code}

\* str(uuid4()): a code no invitation holds
FreshCodes == InviteCodes \ {Invitation[i].invite_code : i \in 1..Len(Invitation)}

\* airbyteapi.createworkspace(name): the workspace is created and its id
\* returned, or the call raises
AirbyteOutcomes == {"created", "raises"}
\* the workspaceId of the n-th workspace the external service creates
WorkspaceId(n) == n

(* ------------------------------ responses ----------------------------- *)

Respond(op, status, user, org) ==
    response' = [op |-> op, status |-> status, user |-> user, org |-> org]

\* request.auth: the ClientUser the bearer token names
Callers == 1..Len(ClientUser)

(* --------------------- the handlers, each served whole ---------------- *)

createuser(email) ==
    /\ nreq < MaxRequests
    /\ nreq' = nreq + 1
    /\ IF UsersByEmail(email) # {}
       THEN /\ Respond("createuser", HTTP_BAD_REQUEST, 0, 0)
            /\ UNCHANGED ClientUser
       ELSE /\ ClientUser' = Append(ClientUser, NewUser(email, 0))
            /\ Respond("createuser", HTTP_OK, Len(ClientUser) + 1, 0)
    /\ UNCHANGED << ClientOrg, Invitation, airbyte_calls, inflight >>
    /\ UNCHANGED taskvars

updateuser(caller, email, active) ==
    /\ nreq < MaxRequests
    /\ nreq' = nreq + 1
    /\ LET user == ClientUser[caller]
           withEmail == IF email # NoneVal THEN [user EXCEPT !.email = email] ELSE user
           saved == IF active # NoneVal THEN [withEmail EXCEPT !.active = active]
                    ELSE withEmail
       IN /\ ClientUser' = [ClientUser EXCEPT ![caller] = saved]
          /\ Respond("updateuser", HTTP_OK, caller, 0)
    /\ UNCHANGED << ClientOrg, Invitation, airbyte_calls, inflight >>
    /\ UNCHANGED taskvars

createclient(caller, name) ==
    /\ nreq < MaxRequests
    /\ nreq' = nreq + 1
    /\ LET user == ClientUser[caller]
       IN IF user.clientorg # 0
          THEN /\ Respond("createclient", HTTP_BAD_REQUEST, caller, 0)
               /\ UNCHANGED << ClientOrg, ClientUser >>
          ELSE IF FirstId(OrgsByName(name)) # 0
          THEN /\ Respond("createclient", HTTP_BAD_REQUEST, caller, 0)
               /\ UNCHANGED << ClientOrg, ClientUser >>
          ELSE /\ ClientOrg' = Append(ClientOrg, NewOrg(name))
               /\ ClientUser' = [ClientUser EXCEPT
                                    ![caller] = [user EXCEPT !.clientorg = Len(ClientOrg) + 1]]
               /\ Respond("createclient", HTTP_OK, caller, Len(ClientOrg) + 1)
    /\ UNCHANGED << Invitation, airbyte_calls, inflight >>
    /\ UNCHANGED taskvars

inviteuser(caller, invited_email) ==
    /\ nreq < MaxRequests
    /\ nreq' = nreq + 1
    /\ IF ClientUser[caller].clientorg = 0
       THEN /\ Respond("inviteuser", HTTP_BAD_REQUEST, caller, 0)
            /\ UNCHANGED Invitation
       ELSE IF FirstId(InvitationsByEmail(invited_email)) # 0
       THEN /\ Respond("inviteuser", HTTP_BAD_REQUEST, caller, 0)
            /\ UNCHANGED Invitation
       ELSE /\ \E code \in FreshCodes :
                 Invitation' = Append(Invitation, NewInvitation(invited_email, caller, code))
            /\ Respond("inviteuser", HTTP_OK, caller, ClientUser[caller].clientorg)
    /\ UNCHANGED << ClientUser, ClientOrg, airbyte_calls, inflight >>
    /\ UNCHANGED taskvars

\* the org of the invitation's inviter (x.invited_by.clientorg)
InviterOrg(x) == ClientUser[Invitation[x].invited_by].clientorg
\* the user an invitation has already brought in, 0 when there is none
InvitedUser(x) == FirstId(UsersByEmailAndOrg(Invitation[x].invited_email, InviterOrg(x)))

acceptinvite(invite_code) ==
    /\ nreq < MaxRequests
    /\ nreq' = nreq + 1
    /\ LET x == FirstId(InvitationsByCode(invite_code))
       IN IF x = 0
          THEN /\ Respond("acceptinvite", HTTP_BAD_REQUEST, 0, 0)
               /\ UNCHANGED ClientUser
          ELSE IF InvitedUser(x) # 0
          THEN /\ Respond("acceptinvite", HTTP_OK, InvitedUser(x), InviterOrg(x))
               /\ UNCHANGED ClientUser
          ELSE /\ ClientUser' = Append(ClientUser,
                                       NewUser(Invitation[x].invited_email, InviterOrg(x)))
               /\ Respond("acceptinvite", HTTP_OK, Len(ClientUser) + 1, InviterOrg(x))
    /\ UNCHANGED << ClientOrg, Invitation, airbyte_calls, inflight >>
    /\ UNCHANGED taskvars

\* airbyte_workspace_id is not None
HasWorkspaceNever(org) == FALSE
HasWorkspace(org) == org.airbyte_workspace_id # 0

airbyte_detatchworkspace(caller) ==
    /\ nreq < MaxRequests
    /\ nreq' = nreq + 1
    /\ LET clientorg == ClientUser[caller].clientorg
       IN IF clientorg = 0
          THEN /\ Respond("airbyte_detatchworkspace", HTTP_BAD_REQUEST, caller, 0)
               /\ UNCHANGED ClientOrg
          ELSE IF ~HasWorkspace(ClientOrg[clientorg])
          THEN /\ Respond("airbyte_detatchworkspace", HTTP_BAD_REQUEST, caller, clientorg)
               /\ UNCHANGED ClientOrg
          ELSE /\ ClientOrg' = [ClientOrg EXCEPT ![clientorg].airbyte_workspace_id = 0]
               /\ Respond("airbyte_detatchworkspace", HTTP_OK, caller, clientorg)
    /\ UNCHANGED << ClientUser, Invitation, airbyte_calls, inflight >>
    /\ UNCHANGED taskvars

airbyte_createworkspace(caller, outcome) ==
    /\ nreq < MaxRequests
    /\ nreq' = nreq + 1
    /\ LET clientorg == ClientUser[caller].clientorg
       IN IF clientorg = 0
          THEN /\ Respond("airbyte_createworkspace", HTTP_BAD_REQUEST, caller, 0)
               /\ UNCHANGED << ClientOrg, airbyte_calls >>
          ELSE IF HasWorkspace(ClientOrg[clientorg])
          THEN /\ Respond("airbyte_createworkspace", HTTP_BAD_REQUEST, caller, clientorg)
               /\ UNCHANGED << ClientOrg, airbyte_calls >>
          ELSE /\ airbyte_calls' = Append(airbyte_calls, clientorg)
               /\ IF outcome = "raises"
                  THEN /\ Respond("airbyte_createworkspace", HTTP_SERVER_ERROR, caller, clientorg)
                       /\ UNCHANGED ClientOrg
                  ELSE /\ ClientOrg' = [ClientOrg EXCEPT ![clientorg].airbyte_workspace_id =
                                            WorkspaceId(Len(airbyte_calls) + 1)]
                       /\ Respond("airbyte_createworkspace", HTTP_OK, caller, clientorg)
    /\ UNCHANGED << ClientUser, Invitation, inflight >>
    /\ UNCHANGED taskvars

(* ------------------------------ the API alone ------------------------- *)

\* the tables after createuser and createclient, and after inviteuser too
SeedUsers == << NewUser("a@x.org", 1) >>
SeedOrgs == << NewOrg("acme") >>
SeedInvitations == << NewInvitation("b@x.org", 1, "code-1") >>

ApiInit ==
    /\ TasksIdle
    /\ response = NoResponse
    /\ nreq = 0
    /\ airbyte_calls = <<>>
    /\ inflight = [c \in Clients |-> NoRequest]
    /\ \/ /\ ClientUser = <<>>
          /\ ClientOrg = <<>>
          /\ Invitation = <<>>
       \/ /\ ClientUser = SeedUsers
          /\ ClientOrg = SeedOrgs
          /\ Invitation \in {<<>>, SeedInvitations}

ApiNext ==
    \/ \E email \in Emails : createuser(email)
    \/ \E caller \in Callers, email \in Emails \cup {NoneVal}, active \in ActiveInputs :
         updateuser(caller, email, active)
    \/ \E caller \in Callers, name \in OrgNames : createclient(caller, name)
    \/ \E caller \in Callers, invited_email \in Emails : inviteuser(caller, invited_email)
    \/ \E invite_code \in InviteCodes : acceptinvite(invite_code)
    \/ \E caller \in Callers : airbyte_detatchworkspace(caller)
    \/ \E caller \in Callers, outcome \in AirbyteOutcomes : airbyte_createworkspace(caller, outcome)

ApiSpec == ApiInit /\ [][ApiNext]_vars

(* ------------------------------ C23 ----------------------------------- *)

\* the response of this step is that of handler op, with this status
Answered(op, status) ==
    /\ nreq' = nreq + 1
    /\ response'.op = op
    /\ response'.status = status

WorkspaceOps == {"airbyte_createworkspace", "airbyte_detatchworkspace"}

\* C23: airbyte_createworkspace succeeds only for an org whose
\* airbyte_workspace_id is unset, and sets it; airbyte_detatchworkspace
\* succeeds only for an org whose id is set, and unsets it; each answers 400
\* and changes nothing otherwise, and both answer 400 to a user without an
\* org. No other request changes the id, so the successful calls for an org
\* alternate create, detach, create, ...; and the external workspace-creation
\* API is only called for an org that has no workspace at that moment.
C23_WorkspaceCreateDetachAlternate ==
    [][ /\ Answered("airbyte_createworkspace", HTTP_OK) =>
              /\ response'.org # 0
              /\ response'.org = ClientUser[response'.user].clientorg
              /\ ClientOrg[response'.org].airbyte_workspace_id = 0
              /\ ClientOrg'[response'.org].airbyte_workspace_id # 0
        /\ Answered("airbyte_detatchworkspace", HTTP_OK) =>
              /\ response'.org # 0
              /\ response'.org = ClientUser[response'.user].clientorg
              /\ ClientOrg[response'.org].airbyte_workspace_id # 0
              /\ ClientOrg'[response'.org].airbyte_workspace_id = 0
        /\ \A op \in WorkspaceOps :
              /\ Answered(op, HTTP_BAD_REQUEST) =>
                    UNCHANGED << ClientUser, ClientOrg, Invitation, airbyte_calls >>
              /\ (nreq' = nreq + 1 /\ response'.op = op
                  /\ ClientUser[response'.user].clientorg = 0) =>
                    response'.status = HTTP_BAD_REQUEST
              /\ (nreq' = nreq + 1 /\ response'.op = op
                  /\ ClientUser[response'.user].clientorg # 0
                  /\ (op = "airbyte_createworkspace") =
                        (ClientOrg[ClientUser[response'.user].clientorg].airbyte_workspace_id # 0)) =>
                    response'.status = HTTP_BAD_REQUEST
        /\ \A o \in 1..Len(ClientOrg) :
              ClientOrg'[o].airbyte_workspace_id # ClientOrg[o].airbyte_workspace_id =>
                  /\ response'.org = o
                  /\ \E op \in WorkspaceOps : Answered(op, HTTP_OK)
        /\ airbyte_calls' # airbyte_calls =>
              /\ Len(airbyte_calls') = Len(airbyte_calls) + 1
              /\ ClientOrg[airbyte_calls'[Len(airbyte_calls')]].airbyte_workspace_id = 0
      ]_vars

\* a workspace was created for an org and then detached again
C23_Witness ==
    /\ response.op = "airbyte_detatchworkspace"
    /\ response.status = HTTP_OK
    /\ airbyte_calls = << response.org >>
    /\ ClientOrg[response.org].airbyte_workspace_id = 0

(* ------------------------------ C24 ----------------------------------- *)

UniqueEmails ==
    \A i, j \in 1..Len(ClientUser) :
        ClientUser[i].email = ClientUser[j].email => i = j

\* C24: no two ClientUser rows hold the same email, whatever createuser,
\* updateuser and acceptinvite requests were served; and createuser creates a
\* user only with an email nobody held, answering 400 and creating nothing
\* otherwise.
C24_UniqueEmails ==
    /\ [](UniqueEmails)
    /\ [][ /\ Answered("createuser", HTTP_OK) =>
                 /\ UsersByEmail(ClientUser'[response'.user].email) = {}
                 /\ Len(ClientUser') = Len(ClientUser) + 1
           /\ Answered("createuser", HTTP_BAD_REQUEST) => UNCHANGED ClientUser
         ]_vars

(* --------------- requests served concurrently, query by query --------- *)

\* The server runs handlers of several requests at once; nothing in
\* clientapi.py opens a transaction or takes a lock, so the queries of one
\* request interleave with those of another. A client's request in flight
\* holds the handler's locals: the row it loaded or is about to create.

Idle(c) == inflight[c].op = NoneVal

Proceed(c, op, step, caller, name, user) ==
    inflight' = [inflight EXCEPT ![c] =
                    [op |-> op, step |-> step, caller |-> caller, name |-> name, user |-> user]]

Return(c) == inflight' = [inflight EXCEPT ![c] = NoRequest]

\* createclient, lines 75-77: request.auth is loaded and its org looked at
createclient_auth(c, caller, name) ==
    /\ Idle(c)
    /\ nreq < MaxRequests
    /\ nreq' = nreq + 1
    /\ LET user == ClientUser[caller]
       IN IF user.clientorg # 0
          THEN /\ Respond("createclient", HTTP_BAD_REQUEST, caller, 0)
               /\ UNCHANGED inflight
          ELSE /\ Proceed(c, "createclient", "lookup", caller, name, user)
               /\ UNCHANGED response
    /\ UNCHANGED << ClientUser, ClientOrg, Invitation, airbyte_calls >>
    /\ UNCHANGED taskvars

\* createclient, lines 78-80: the org of that name is looked up
createclient_lookup(c) ==
    /\ inflight[c].op = "createclient"
    /\ inflight[c].step = "lookup"
    /\ IF FirstId(OrgsByName(inflight[c].name)) # 0
       THEN /\ Respond("createclient", HTTP_BAD_REQUEST, inflight[c].caller, 0)
            /\ Return(c)
       ELSE /\ Proceed(c, "createclient", "create", inflight[c].caller, inflight[c].name,
                       inflight[c].user)
            /\ UNCHANGED response
    /\ UNCHANGED << ClientUser, ClientOrg, Invitation, airbyte_calls, nreq >>
    /\ UNCHANGED taskvars

\* createclient, lines 81-84: the org is created and the loaded user saved
createclient_create(c) ==
    /\ inflight[c].op = "createclient"
    /\ inflight[c].step = "create"
    /\ ClientOrg' = Append(ClientOrg, NewOrg(inflight[c].name))
    /\ ClientUser' = [ClientUser EXCEPT ![inflight[c].caller] =
                         [inflight[c].user EXCEPT !.clientorg = Len(ClientOrg) + 1]]
    /\ Respond("createclient", HTTP_OK, inflight[c].caller, Len(ClientOrg) + 1)
    /\ Return(c)
    /\ UNCHANGED << Invitation, airbyte_calls, nreq >>
    /\ UNCHANGED taskvars

\* acceptinvite, lines 121-125: the invitation and the invited user are
\* looked up
acceptinvite_lookup(c, invite_code) ==
    /\ Idle(c)
    /\ nreq < MaxRequests
    /\ nreq' = nreq + 1
    /\ LET x == FirstId(InvitationsByCode(invite_code))
       IN IF x = 0
          THEN /\ Respond("acceptinvite", HTTP_BAD_REQUEST, 0, 0)
               /\ UNCHANGED inflight
          ELSE IF InvitedUser(x) # 0
          THEN /\ Respond("acceptinvite", HTTP_OK, InvitedUser(x), InviterOrg(x))
               /\ UNCHANGED inflight
          ELSE /\ Proceed(c, "acceptinvite", "create", 0, NoneVal,
                          NewUser(Invitation[x].invited_email, InviterOrg(x)))
               /\ UNCHANGED response
    /\ UNCHANGED << ClientUser, ClientOrg, Invitation, airbyte_calls >>
    /\ UNCHANGED taskvars

\* acceptinvite, lines 126-128: the invited user is created and returned
acceptinvite_create(c) ==
    /\ inflight[c].op = "acceptinvite"
    /\ inflight[c].step = "create"
    /\ ClientUser' = Append(ClientUser, inflight[c].user)
    /\ Respond("acceptinvite", HTTP_OK, Len(ClientUser) + 1, inflight[c].user.clientorg)
    /\ Return(c)
    /\ UNCHANGED << ClientOrg, Invitation, airbyte_calls, nreq >>
    /\ UNCHANGED taskvars

\* the tables after two createuser requests, or after createuser,
\* createclient and inviteuser
ApiInitInterleaved ==
    /\ TasksIdle
    /\ response = NoResponse
    /\ nreq = 0
    /\ airbyte_calls = <<>>
    /\ inflight = [c \in Clients |-> NoRequest]
    /\ \/ /\ ClientUser = << NewUser("a@x.org", 0), NewUser("b@x.org", 0) >>
          /\ ClientOrg = <<>>
          /\ Invitation = <<>>
       \/ /\ ClientUser = SeedUsers
          /\ ClientOrg = SeedOrgs
          /\ Invitation = SeedInvitations

ApiNextInterleaved ==
    \E c \in Clients :
        \/ \E caller \in Callers, name \in OrgNames : createclient_auth(c, caller, name)
        \/ createclient_lookup(c)
        \/ createclient_create(c)
        \/ \E invite_code \in InviteCodes : acceptinvite_lookup(c, invite_code)
        \/ acceptinvite_create(c)

ApiSpecInterleaved == ApiInitInterleaved /\ [][ApiNextInterleaved]_vars

(* ------------------------------ C25 ----------------------------------- *)

\* the users an invitation has brought in
UsersInvited(x) == UsersByEmailAndOrg(Invitation[x].invited_email, InviterOrg(x))

\* this step answers a request with this response
Replies(op, status) ==
    /\ response' # response
    /\ response'.op = op
    /\ response'.status = status

\* C25: however often an invite code is accepted, also by requests that
\* interleave, at most one ClientUser exists with the invited email in the
\* inviter's org, and each accepting request is answered with that user; an
\* unknown invite code is answered 400 and no user is created.
C25_AcceptInviteIdempotent ==
    /\ [](\A x \in 1..Len(Invitation) : Cardinality(UsersInvited(x)) <= 1)
    /\ [][ /\ Replies("acceptinvite", HTTP_OK) =>
                 \E x \in 1..Len(Invitation) : UsersInvited(x)' = {response'.user}
           /\ Replies("acceptinvite", HTTP_BAD_REQUEST) => UNCHANGED ClientUser
         ]_vars

(* ------------------------------ C26 ----------------------------------- *)

UniqueOrgNames ==
    \A i, j \in 1..Len(ClientOrg) :
        ClientOrg[i].name = ClientOrg[j].name => i = j

\* C26: createclient is answered 200 only when the calling user has no org
\* and no org of the requested name exists; whatever createclient requests
\* were served, interleaved ones included, no two ClientOrg rows share a name,
\* and the org of a user, once set, is never replaced.
C26_CreateClientOnce ==
    /\ [](UniqueOrgNames)
    /\ [][ /\ Replies("createclient", HTTP_OK) =>
                 /\ ClientUser[response'.user].clientorg = 0
                 /\ OrgsByName(ClientOrg'[response'.org].name) = {}
           /\ \A u \in 1..Len(ClientUser) :
                 ClientUser[u].clientorg # 0 =>
                     ClientUser'[u].clientorg = ClientUser[u].clientorg
         ]_vars

====
